---- MODULE Spec2Model ----
(***************************************************************************)
(* Model of the stale-issue bot (src/stale/__init__.py): the Stale class,   *)
(* its exemption test, its per-issue decision and its two-phase run loop,   *)
(* together with the tracker state the bot reads and writes.                *)
(*                                                                         *)
(* Time is counted in days.  A run is short against that unit, so the      *)
(* clock stands still while a run is in progress and advances between       *)
(* runs.  One loop iteration of Stale.process is one step.                  *)
(***************************************************************************)
EXTENDS Integers, Sequences, FiniteSets, TLC

\* ---------------------------------------------------------------- bounds
NIssues == 3        \* issues in the repository
MaxTicks == 1       \* days the clock advances

\* ------------------------------------------------------ program constants
DEFAULT_MARK_COMMENT == "This issue has been automatically marked as stale"
DefaultStaleLabel == "stale"
DefaultDaysUntilStale == 60

\* Python's None where an integer is expected (self.processed)
None == -1
\* NamedUser.email of a user without a public address
NoEmail == "None"

Ids == 1..NIssues

VARIABLES
    config,       \* the dict loaded from .github/stale.yml (keys may be absent)
    issues,       \* tracker: id -> issue
    now,          \* datetime.utcnow(), in days
    dry_run,      \* args.dry_run (the same flag on every run of a behaviour)
    processed,    \* self.processed
    pc,           \* "idle" | "scan" | "done" | "crashed"
    phase,        \* index into search_labels (1 or 2)
    fetched,      \* the issue list of the current phase, in the tracker's order
    idx,          \* position of the loop in fetched
    log,          \* what the run did so far, one entry per issue examined
    start,        \* tracker state when the run started
    calls         \* mutating tracker calls issued by the run

vars == <<config, issues, now, dry_run, processed, pc, phase, fetched, idx,
          log, start, calls>>

\* ------------------------------------------------------------ config dict
Has(k) == k \in DOMAIN config
Get(k, default) == IF Has(k) THEN config[k] ELSE default
\* truthiness of config.get(k) for an integer value, for a string value
Truthy(k) == IF Has(k) THEN config[k] # 0 ELSE FALSE
TruthyText(k) == IF Has(k) THEN config[k] # "" ELSE FALSE

staleLabel == Get("staleLabel", DefaultStaleLabel)
markComment == Get("markComment", DEFAULT_MARK_COMMENT)
onlyLabels == Get("onlyLabels", {})
HasLimit == Truthy("limitPerRun")
limitPerRun == IF Has("limitPerRun") THEN config["limitPerRun"] ELSE None

\* -------------------------------------------------------------- is_exempt
\* set(self.config.get('exemptLabels')) raises TypeError when the key is absent
ExemptLabelsRaises == ~Has("exemptLabels")

ExemptByLabel(issue) == (config["exemptLabels"] \cap issue.labels) # {}

ExemptByAssignee(issue) ==
    issue.assignees # <<>> /\ Get("exemptAssignees", TRUE)

\* ', '.join([user.email ...]) raises TypeError when an email is None
JoinRaises(issue) ==
    \E k \in DOMAIN issue.assignees : issue.assignees[k] = NoEmail

ExemptByMilestone(issue) ==
    issue.milestone /\ Get("exemptMilestones", TRUE)

\* "True" | "False" | "TypeError"
is_exempt(issue) ==
    IF ExemptLabelsRaises THEN "TypeError"
    ELSE IF ExemptByLabel(issue) THEN "True"
    ELSE IF ExemptByAssignee(issue)
         THEN (IF JoinRaises(issue) THEN "TypeError" ELSE "True")
    ELSE IF ExemptByMilestone(issue) THEN "True"
    ELSE "False"

\* ------------------------------------------------------------- stale_path
\* the close threshold one day short
close_date_short == now - config["daysUntilClose"] + 1

close_date == now - config["daysUntilClose"]

last_comment(issue) == issue.comments[Len(issue.comments)]

\* stale_path closing on the boundary day as well
stale_path_le(issue) ==
    IF ~Truthy("daysUntilClose") THEN "NoOp"
    ELSE IF issue.comments = <<>> THEN "IndexError"
    ELSE IF last_comment(issue).body = markComment
         THEN (IF last_comment(issue).updated_at <= close_date
               THEN "Close" ELSE "NoOp")
    ELSE "UnmarkStale"

\* stale_path keeping the label when the reply itself is old, and closing
stale_path_age(issue) ==
    IF ~Truthy("daysUntilClose") THEN "NoOp"
    ELSE IF issue.comments = <<>> THEN "IndexError"
    ELSE IF last_comment(issue).updated_at < close_date THEN "Close"
    ELSE IF last_comment(issue).body = markComment THEN "NoOp"
    ELSE "UnmarkStale"

\* stale_path without the early return for a missing daysUntilClose
stale_path_noreturn(issue) ==
    IF issue.comments = <<>> THEN "IndexError"
    ELSE IF last_comment(issue).body = markComment
         THEN (IF Truthy("daysUntilClose")
               THEN (IF last_comment(issue).updated_at < close_date
                     THEN "Close" ELSE "NoOp")
               ELSE "NoOp")
    ELSE "UnmarkStale"

\* "Close" | "UnmarkStale" | "NoOp" | "IndexError"
stale_path(issue) ==
    IF ~Truthy("daysUntilClose") THEN "NoOp"
    ELSE IF issue.comments = <<>> THEN "IndexError"
    ELSE IF last_comment(issue).body = markComment
         THEN (IF last_comment(issue).updated_at < close_date
               THEN "Close" ELSE "NoOp")
    ELSE "UnmarkStale"

\* ---------------------------------------------------------- process_issue
\* the threshold falling back to 30 days
stale_date_30 == now - Get("daysUntilStale", 30)

stale_date == now - Get("daysUntilStale", DefaultDaysUntilStale)

\* process_issue marking on the boundary day as well
process_issue_le(issue) ==
    IF staleLabel \in issue.labels THEN stale_path(issue)
    ELSE IF issue.updated_at <= stale_date THEN "MarkStale"
    ELSE "EarlyExit"

\* as stale_path, or "MarkStale" | "EarlyExit"
process_issue(issue) ==
    IF staleLabel \in issue.labels THEN stale_path(issue)
    ELSE IF issue.updated_at < stale_date THEN "MarkStale"
    ELSE "EarlyExit"

\* the value process_issue returns to the loop
Returns(d) == d \in {"MarkStale", "UnmarkStale", "Close"}

\* ---------------------------------------------------------- tracker calls
Comment(body) == [body |-> body, updated_at |-> now]

create_comment(issue, body) ==
    [issue EXCEPT !.comments = Append(@, Comment(body)), !.updated_at = now]

add_to_labels(issue, l) ==
    [issue EXCEPT !.labels = @ \cup {l}, !.updated_at = now]

remove_from_labels(issue, l) ==
    [issue EXCEPT !.labels = @ \ {l}, !.updated_at = now]

edit_closed(issue) ==
    [issue EXCEPT !.state = "closed", !.updated_at = now]

\* one tracker call, and the issue after it
Call(op, arg) == [op |-> op, arg |-> arg]

Do(issue, c) ==
    CASE c.op = "add_to_labels" -> add_to_labels(issue, c.arg)
      [] c.op = "remove_from_labels" -> remove_from_labels(issue, c.arg)
      [] c.op = "create_comment" -> create_comment(issue, c.arg)
      [] c.op = "edit" -> edit_closed(issue)

RECURSIVE After(_, _)
After(issue, cs) ==
    IF cs = <<>> THEN issue ELSE After(Do(issue, Head(cs)), Tail(cs))

\* the mutating calls of each decision, in the order the code issues them
MarkCalls ==
    <<Call("add_to_labels", staleLabel), Call("create_comment", markComment)>>

\* the label left on the issue when it is unmarked
UnmarkCalls_keep ==
    IF TruthyText("unmarkComment")
    THEN <<Call("create_comment", config["unmarkComment"])>>
    ELSE <<>>

UnmarkCalls ==
    <<Call("remove_from_labels", staleLabel)>>
    \o (IF TruthyText("unmarkComment")
        THEN <<Call("create_comment", config["unmarkComment"])>>
        ELSE <<>>)

\* the issue closed first and the closing comment posted afterwards
CloseCalls_late ==
    <<Call("edit", "closed")>>
    \o (IF TruthyText("closeComment")
        THEN <<Call("create_comment", config["closeComment"])>>
        ELSE <<>>)

CloseCalls ==
    (IF TruthyText("closeComment")
     THEN <<Call("create_comment", config["closeComment"])>>
     ELSE <<>>)
    \o <<Call("edit", "closed")>>

Calls(d) ==
    CASE d = "MarkStale" -> MarkCalls
      [] d = "UnmarkStale" -> UnmarkCalls
      [] d = "Close" -> CloseCalls
      [] OTHER -> <<>>

\* the issue after the mutating calls of decision d (not in dry-run)
MarkEffect(issue) == After(issue, MarkCalls)

UnmarkEffect(issue) == After(issue, UnmarkCalls)

CloseEffect(issue) == After(issue, CloseCalls)

Effect(issue, d) ==
    CASE d = "MarkStale" -> MarkEffect(issue)
      [] d = "UnmarkStale" -> UnmarkEffect(issue)
      [] d = "Close" -> CloseEffect(issue)
      [] OTHER -> issue

\* number of mutating calls decision d issues (not in dry-run)
CallsOf(d) == Len(Calls(d))

\* ------------------------------------------------------------- get_issues
\* the two searches in the other order
search_labels_swapped == <<onlyLabels, {staleLabel}>>

search_labels == <<{staleLabel}, onlyLabels>>

Listed(p) ==
    {i \in Ids : issues[i].state = "open" /\ search_labels[p] \subseteq issues[i].labels}

\* every order of S the tracker may return for sort = updated, ascending
\* (issues that are equal in every field are told apart by their number only,
\* and are listed by it)
SortedLists(S) ==
    {s \in [1..Cardinality(S) -> S] :
        /\ \A a, b \in DOMAIN s : a # b => s[a] # s[b]
        /\ \A a, b \in DOMAIN s : a < b =>
              /\ issues[s[a]].updated_at <= issues[s[b]].updated_at
              /\ issues[s[a]] = issues[s[b]] => s[a] < s[b]}

\* ------------------------------------------------------------------- Init
\* The issues of Init were last touched on day 0 or 1.  The clock starts
\* one day past the staleness threshold, so that an issue of day 0 is old
\* enough to be marked and an issue of day 1 is exactly on the boundary.
Now0 == 1 + Get("daysUntilStale", DefaultDaysUntilStale)

IssueKinds ==
    LET I(l, a, m, u, c) ==
            [state |-> "open", labels |-> l, assignees |-> a, milestone |-> m,
             updated_at |-> u, comments |-> c]
        mark0 == [body |-> DEFAULT_MARK_COMMENT, updated_at |-> 0]
        human1 == [body |-> "still happening", updated_at |-> 1]
    IN  << I({"bug"}, <<>>, FALSE, 0, <<>>),                    \* old, labelled bug
           I({}, <<>>, FALSE, 1, <<>>),                         \* a day younger
           I({"stale"}, <<>>, FALSE, 0, <<mark0>>),             \* marked
           I({"stale"}, <<>>, FALSE, 1, <<mark0, human1>>),     \* marked, then a reply
           I({"stale"}, <<>>, FALSE, 0, <<>>),                  \* labelled by hand
           I({"stale", "pinned"}, <<>>, FALSE, 1, <<mark0, human1>>),
           I({}, <<"dev@example.com">>, FALSE, 0, <<>>),
           I({}, <<NoEmail>>, FALSE, 0, <<>>),
           I({}, <<>>, TRUE, 0, <<>>) >>

Configs ==
    LET both == [daysUntilStale |-> 1, daysUntilClose |-> 1]
        pin == [exemptLabels |-> {"pinned"}]
        texts == [unmarkComment |-> "unmarked", closeComment |-> "closed"]
    IN  { both @@ pin @@ texts @@ [limitPerRun |-> 1],
          both @@ pin @@ texts,
          both @@ pin @@ [limitPerRun |-> 1, onlyLabels |-> {"bug"}],
          both @@ [exemptLabels |-> {}, exemptAssignees |-> FALSE,
                   exemptMilestones |-> FALSE, limitPerRun |-> 2],
          both,
          pin @@ [daysUntilStale |-> 1, limitPerRun |-> 1],
          pin @@ [daysUntilClose |-> 1],
          pin @@ [limitPerRun |-> 2] }

Init ==
    /\ config \in Configs
    /\ \E k \in [Ids -> DOMAIN IssueKinds] :
          /\ \A i, j \in Ids : i < j => k[i] <= k[j]
          \* several plain issues of the same age, one issue of every other kind
          /\ \A i, j \in Ids : (i < j /\ k[i] = k[j]) => k[i] \in {1, 2}
          /\ issues = [i \in Ids |-> IssueKinds[k[i]]]
    /\ now = Now0
    /\ dry_run \in BOOLEAN
    /\ processed = 0
    /\ pc = "idle"
    /\ phase = 1
    /\ fetched = <<>>
    /\ idx = 1
    /\ log = <<>>
    /\ start = issues
    /\ calls = 0

\* ------------------------------------------------------------ environment
Tick ==
    /\ pc = "idle"
    /\ now < Now0 + MaxTicks
    /\ now' = now + 1
    /\ UNCHANGED <<config, issues, dry_run, processed, pc, phase, fetched, idx,
                   log, start, calls>>

\* -------------------------------------------------------------------- run
\* Stale.__init__ and the first get_issues of Stale.process
StartRun ==
    /\ pc = "idle"
    /\ processed' = 0
    /\ pc' = "scan"
    /\ phase' = 1
    /\ fetched' \in SortedLists(Listed(1))
    /\ idx' = 1
    /\ log' = <<>>
    /\ start' = issues
    /\ calls' = 0
    /\ UNCHANGED <<config, issues, now, dry_run>>

InLoop == pc = "scan" /\ idx <= Len(fetched)

\* the cap test off by one
cap_reached_gt == HasLimit /\ processed > limitPerRun

\* if limitPerRun and processed >= limitPerRun
cap_reached == HasLimit /\ processed >= limitPerRun

\* the exemption test left out of the scan of the stale-labelled issues
Skips_second(issue) == is_exempt(issue) = "True" /\ phase = 2

\* if self.is_exempt(issue): continue
Skips(issue) == is_exempt(issue) = "True"
Raises(issue) == is_exempt(issue) = "TypeError"

\* the close path forgetting the dry-run test
Apply_close(issue, d) ==
    IF dry_run /\ d # "Close" THEN issue ELSE Effect(issue, d)

\* if not self.args.dry_run: the tracker calls of decision d
Apply(issue, d) == IF dry_run THEN issue ELSE Effect(issue, d)
Issued(d) == IF dry_run THEN 0 ELSE CallsOf(d)

\* the counter left as it is when the scan meets an issue not yet stale
end_early_keep == processed

\* self.processed = self.config.get('limitPerRun')
end_early == limitPerRun

\* one line of the run's record: the issue as the loop met it (snap) and left
\* it (post), and self.processed before and after
Entry(i, d, post, after) ==
    [issue |-> i, phase |-> phase, decision |-> d, snap |-> issues[i],
     post |-> post, before |-> processed, after |-> after,
     calls |-> IF dry_run THEN <<>> ELSE Calls(d), failed |-> FALSE]

\* return, out of both loops
CapReached ==
    /\ InLoop
    /\ cap_reached
    /\ pc' = "done"
    /\ UNCHANGED <<config, issues, now, dry_run, processed, phase, fetched, idx,
                   log, start, calls>>

SkipExempt ==
    /\ InLoop
    /\ ~cap_reached
    /\ Skips(issues[fetched[idx]])
    /\ idx' = idx + 1
    /\ log' = Append(log, Entry(fetched[idx], "Exempt", issues[fetched[idx]], processed))
    /\ UNCHANGED <<config, issues, now, dry_run, processed, pc, phase, fetched,
                   start, calls>>

\* is_exempt raises: the exception leaves process() and main()
ExemptRaises ==
    /\ InLoop
    /\ ~cap_reached
    /\ Raises(issues[fetched[idx]])
    /\ pc' = "crashed"
    /\ log' = Append(log, Entry(fetched[idx], "TypeError", issues[fetched[idx]], processed))
    /\ UNCHANGED <<config, issues, now, dry_run, processed, phase, fetched, idx,
                   start, calls>>

\* if self.process_issue(issue): self.processed += 1
ProcessIssue ==
    /\ InLoop
    /\ ~cap_reached
    /\ ~Raises(issues[fetched[idx]])
    /\ ~Skips(issues[fetched[idx]])
    /\ LET i == fetched[idx]
           d == process_issue(issues[i])
       IN  /\ IF d = "IndexError"
              THEN \* issue.get_comments().reversed[0] on an empty list
                   /\ pc' = "crashed"
                   /\ UNCHANGED <<issues, processed, idx, calls>>
              ELSE IF Returns(d)
              THEN /\ issues' = [issues EXCEPT ![i] = Apply(@, d)]
                   /\ calls' = calls + Issued(d)
                   /\ IF processed = None
                      THEN \* None += 1 raises TypeError, after the calls were made
                           /\ pc' = "crashed"
                           /\ UNCHANGED <<processed, idx>>
                      ELSE /\ processed' = processed + 1
                           /\ idx' = idx + 1
                           /\ pc' = pc
              ELSE /\ processed' = IF d = "EarlyExit" THEN end_early ELSE processed
                   /\ idx' = idx + 1
                   /\ UNCHANGED <<issues, pc, calls>>
           /\ log' = Append(log, Entry(i, d, issues'[i], processed'))
    /\ UNCHANGED <<config, now, dry_run, phase, fetched, start>>

\* the first for-loop is exhausted: get_issues for the second search
NextPhase ==
    /\ pc = "scan"
    /\ idx > Len(fetched)
    /\ phase = 1
    /\ phase' = 2
    /\ fetched' \in SortedLists(Listed(2))
    /\ idx' = 1
    /\ UNCHANGED <<config, issues, now, dry_run, processed, pc, log, start, calls>>

\* both loops are exhausted: process() returns
Finish ==
    /\ pc = "scan"
    /\ idx > Len(fetched)
    /\ phase = 2
    /\ pc' = "done"
    /\ UNCHANGED <<config, issues, now, dry_run, processed, phase, fetched, idx,
                   log, start, calls>>

\* the process ends (main returns, or the exception reaches the top level):
\* the Stale object is gone, the tracker keeps what was done
Exit ==
    /\ pc \in {"done", "crashed"}
    /\ pc' = "idle"
    /\ processed' = 0
    /\ phase' = 1
    /\ fetched' = <<>>
    /\ idx' = 1
    /\ log' = <<>>
    /\ start' = issues
    /\ calls' = 0
    /\ UNCHANGED <<config, issues, now, dry_run>>

RunStep ==
    \/ CapReached
    \/ SkipExempt
    \/ ExemptRaises
    \/ ProcessIssue
    \/ NextPhase
    \/ Finish

Next ==
    \/ Tick
    \/ StartRun
    \/ RunStep
    \/ Exit

Spec == Init /\ [][Next]_vars

\* The bot is started again and again (cron), a started run goes on to its
\* return or its exception, the process then ends, and days pass.
Fairness ==
    /\ WF_vars(StartRun)
    /\ WF_vars(RunStep)
    /\ WF_vars(Exit)
    /\ SF_vars(Tick)

LiveSpec == Spec /\ Fairness

\* -------------------------------------------------------- tracker failures
\* an exception of a tracker call caught and the loop going on
on_error_swallowed == "scan"

\* no try/except anywhere: an exception of a tracker call leaves
\* process_issue, process() and main()
on_error == "crashed"

\* a mutating call of the decision raises; the calls before it were made
ProcessIssueFails ==
    /\ InLoop
    /\ ~cap_reached
    /\ ~Raises(issues[fetched[idx]])
    /\ ~Skips(issues[fetched[idx]])
    /\ ~dry_run
    /\ LET i == fetched[idx]
           d == process_issue(issues[i])
       IN  /\ Returns(d)
           /\ \E n \in 0..(Len(Calls(d)) - 1) :
                 LET made == SubSeq(Calls(d), 1, n)
                 IN  /\ issues' = [issues EXCEPT ![i] = After(@, made)]
                     /\ calls' = calls + n
                     /\ log' = Append(log,
                           [Entry(i, d, issues'[i], processed)
                               EXCEPT !.calls = made, !.failed = TRUE])
    /\ pc' = on_error
    /\ UNCHANGED <<config, now, dry_run, processed, phase, fetched, idx, start>>

\* the record of a get_issues that raised: no issue was handed to the loop
FetchFailed(p) ==
    [issue |-> 0, phase |-> p, decision |-> "GithubException",
     before |-> processed, after |-> processed, calls |-> <<>>, failed |-> TRUE]

\* get_issues raises, for the first search or for the second
FetchFails ==
    /\ \/ /\ pc = "idle"
          /\ phase' = 1
          /\ log' = <<FetchFailed(1)>>
       \/ /\ pc = "scan"
          /\ idx > Len(fetched)
          /\ phase = 1
          /\ phase' = 2
          /\ log' = Append(log, FetchFailed(2))
    /\ pc' = on_error
    /\ UNCHANGED <<config, issues, now, dry_run, processed, fetched, idx, start,
                   calls>>

\* the runs of one day, each tracker call free to fail
NextWithFailures ==
    \/ StartRun
    \/ RunStep
    \/ Exit
    \/ ProcessIssueFails
    \/ FetchFails

FailSpec == Init /\ [][NextWithFailures]_vars

\* ================================================================ claims
\* the entries of the run's record, and those of issues that were classified
Entries == {log[k] : k \in DOMAIN log}
Classified == {e \in Entries : e.decision \notin {"Exempt", "TypeError"}}
Acted == Cardinality({k \in DOMAIN log : Returns(log[k].decision)})
InRun == pc # "idle"
StaleEntry(e) == staleLabel \in e.snap.labels
Reply(e) ==
    /\ e.snap.comments # <<>>
    /\ last_comment(e.snap).body # markComment

\* C1: with both thresholds configured, outside dry-run and with a positive
\* (or no) limitPerRun, recurring runs eventually mark every open non-exempt
\* issue that is left alone, and then close it.  Stated here for its first
\* half and for the issues the second scan lists (those carrying onlyLabels):
\* an issue that is old enough to be marked is eventually marked.
C1_Case(i) ==
    /\ ~dry_run
    /\ Has("daysUntilStale")
    /\ Truthy("daysUntilClose")
    /\ (Has("limitPerRun") => limitPerRun > 0)
    /\ issues[i].state = "open"
    /\ onlyLabels \subseteq issues[i].labels
    /\ is_exempt(issues[i]) = "False"
    /\ staleLabel \notin issues[i].labels
    /\ issues[i].updated_at < stale_date

C1_EventuallyMarked ==
    \A i \in Ids : C1_Case(i) ~> (staleLabel \in issues[i].labels)

\* the issues a run lists that are not exempt and get a decision other than
\* NoOp, as the run found them
Eligible(i) ==
    /\ start[i].state = "open"
    /\ (staleLabel \in start[i].labels \/ onlyLabels \subseteq start[i].labels)
    /\ is_exempt(start[i]) = "False"
    /\ Returns(process_issue(start[i]))

\* C2: with limitPerRun = N and M > N non-exempt issues that would each get
\* MarkStale, UnmarkStale or Close, the run takes exactly N actions (in
\* dry-run: logs N) and reaches Done without looking at the other M - N.
C2_CapEnforced ==
    (pc \in {"done", "crashed"} /\ HasLimit
        /\ Cardinality({i \in Ids : Eligible(i)}) > limitPerRun) =>
       /\ pc = "done"
       /\ Acted = limitPerRun
       /\ Cardinality({e.issue : e \in {c \in Classified : Eligible(c.issue)}})
             <= limitPerRun

\* C3: with limitPerRun = N > 0, a run has taken at most N mutating actions
\* (MarkStale, UnmarkStale, Close), both scan phases together, in every state.
C3_AtMostLimit ==
    (HasLimit /\ limitPerRun > 0) => Acted <= limitPerRun

\* a run outside dry-run that used its whole budget of 2 across both phases
C3_Witness ==
    /\ ~dry_run
    /\ HasLimit
    /\ limitPerRun = 2
    /\ Acted = 2
    /\ \E e \in Entries : e.phase = 1 /\ Returns(e.decision)
    /\ \E e \in Entries : e.phase = 2 /\ Returns(e.decision)

\* C4: in dry-run a run issues no mutating tracker call: labels, comments and
\* state of every issue stay as they were when the run started, whatever
\* decisions are computed.
C4_DryRunFrame ==
    (InRun /\ dry_run) => (calls = 0 /\ issues = start)

\* a finished dry run that decided to close one issue and to mark another
C4_Witness ==
    /\ dry_run
    /\ pc = "done"
    /\ \E e \in Entries : e.decision = "Close"
    /\ \E e \in Entries : e.decision = "MarkStale"

\* C5: an exempt issue is never classified, never mutated (a stale-labelled one
\* is neither unmarked nor closed) and never changes processed, in both phases.
C5_ExemptUntouched ==
    /\ \A e \in Entries :
          is_exempt(e.snap) = "True" =>
             /\ e.decision = "Exempt"
             /\ e.post = e.snap
             /\ e.after = e.before
    /\ \A i \in Ids :
          (InRun /\ is_exempt(start[i]) = "True") => issues[i] = start[i]

\* outside dry-run, an exempt stale-labelled issue with a human reply was
\* skipped in both phases while another issue was acted on
C5_Witness ==
    /\ ~dry_run
    /\ \E e \in Entries : e.phase = 1 /\ e.decision = "Exempt" /\ StaleEntry(e) /\ Reply(e)
    /\ \E e \in Entries : e.phase = 2 /\ e.decision = "Exempt"
    /\ \E e \in Entries : Returns(e.decision)

\* C6: an issue is closed only if, when decided, it carried the stale label,
\* daysUntilClose was configured, its latest comment was the mark comment and
\* that comment was strictly older than now - daysUntilClose; an issue whose
\* latest comment is a reply is never closed.
C6_CloseSafety ==
    /\ \A e \in Entries :
          e.decision = "Close" =>
             /\ StaleEntry(e)
             /\ Truthy("daysUntilClose")
             /\ e.snap.comments # <<>>
             /\ last_comment(e.snap).body = markComment
             /\ last_comment(e.snap).updated_at < now - config["daysUntilClose"]
    /\ \A i \in Ids :
          (InRun /\ issues[i].state = "closed" /\ start[i].state = "open") =>
             \E e \in Entries : e.issue = i /\ e.decision = "Close"

\* an issue closed by the run while a stale-labelled issue with a reply was not
C6_Witness ==
    /\ \E i \in Ids : issues[i].state = "closed" /\ start[i].state = "open"
    /\ \E e \in Classified : StaleEntry(e) /\ Reply(e) /\ e.post.state = "open"

\* C7: a non-exempt stale-labelled issue whose latest comment is not the mark
\* comment, with daysUntilClose configured, gets UnmarkStale however old the
\* comment is; outside dry-run the label is removed and the issue stays open.
C7_UnmarkOnReply ==
    \A e \in Classified :
       (StaleEntry(e) /\ Truthy("daysUntilClose") /\ Reply(e)) =>
          /\ e.decision = "UnmarkStale"
          /\ ~dry_run => (staleLabel \notin e.post.labels /\ e.post.state = "open")

\* outside dry-run, an issue unmarked although its reply is older than the
\* close threshold
C7_Witness ==
    /\ ~dry_run
    /\ \E e \in Classified :
          /\ e.decision = "UnmarkStale"
          /\ Reply(e)
          /\ last_comment(e.snap).updated_at < close_date
          /\ staleLabel \notin e.post.labels

\* C8: without daysUntilClose every stale-labelled issue gets NoOp: it is not
\* closed, not unmarked (even after a reply) and not counted in processed.
C8_NoCloseThreshold ==
    ~Truthy("daysUntilClose") =>
       /\ \A e \in Classified :
             StaleEntry(e) =>
                /\ e.decision = "NoOp"
                /\ e.post = e.snap
                /\ e.after = e.before
       /\ \A i \in Ids :
             (InRun /\ staleLabel \in start[i].labels) => issues[i] = start[i]

\* outside dry-run and without daysUntilClose, a stale-labelled issue with a
\* reply and one with only the mark comment were both left alone
C8_Witness ==
    /\ ~dry_run
    /\ ~Has("daysUntilClose")
    /\ \E e \in Classified : StaleEntry(e) /\ Reply(e) /\ e.decision = "NoOp"
    /\ \E e \in Classified : StaleEntry(e) /\ ~Reply(e) /\ e.decision = "NoOp"

\* C9: a non-exempt issue without the stale label gets MarkStale exactly when
\* updated_at < now - daysUntilStale (60 when absent): not on the boundary,
\* one time unit older yes.
C9_MarkRule ==
    \A e \in Classified :
       ~StaleEntry(e) =>
          (e.decision = "MarkStale" <=>
              e.snap.updated_at < now - Get("daysUntilStale", DefaultDaysUntilStale))

\* under the default of 60 days, one run marked an issue one day past the
\* boundary and did not mark an issue exactly on it
C9_Witness ==
    /\ ~Has("daysUntilStale")
    /\ \E e \in Classified :
          /\ e.decision = "MarkStale"
          /\ e.snap.updated_at = now - DefaultDaysUntilStale - 1
    /\ \E e \in Classified :
          /\ ~StaleEntry(e)
          /\ e.decision # "MarkStale"
          /\ e.snap.updated_at = now - DefaultDaysUntilStale

Neither == ~Has("daysUntilStale") /\ ~Has("daysUntilClose")

C11_NoCommentUnmarks ==
    \A e \in Entries :
       (is_exempt(e.snap) = "False" /\ StaleEntry(e)
            /\ Truthy("daysUntilClose") /\ e.snap.comments = <<>>) =>
          /\ e.decision = "UnmarkStale"
          /\ pc # "crashed"

\* the issue carries the label, its latest comment is the mark comment and
\* nothing touched it since that comment was posted
MarkedAndLeft(issue) ==
    /\ staleLabel \in issue.labels
    /\ issue.comments # <<>>
    /\ last_comment(issue).body = markComment
    /\ last_comment(issue).updated_at = issue.updated_at

\* C12: an issue marked stale at time t and left alone gets NoOp at every
\* later classification with now - t <= daysUntilClose: it is not marked
\* again, not unmarked, not closed and not counted in processed.
C12_MarkIsIdempotent ==
    \A k \in DOMAIN log :
       (/\ log[k].decision \notin {"Exempt", "TypeError"}
        /\ MarkedAndLeft(log[k].snap)
        /\ Truthy("daysUntilClose")
        /\ now - log[k].snap.updated_at <= config["daysUntilClose"]) =>
          /\ log[k].decision = "NoOp"
          /\ log[k].post = log[k].snap
          /\ log[k].after = log[k].before

\* an issue the bot itself marked in an earlier run is classified again on the
\* last day of the window, in both scans, and left alone
C12_Witness ==
    /\ ~dry_run
    /\ Truthy("daysUntilClose")
    /\ \E e \in Classified :
          /\ e.phase = 1
          /\ MarkedAndLeft(e.snap)
          /\ e.snap.updated_at >= Now0
          /\ now - e.snap.updated_at = config["daysUntilClose"]
          /\ e.decision = "NoOp"
    /\ \E e \in Classified :
          /\ e.phase = 2
          /\ MarkedAndLeft(e.snap)
          /\ e.snap.updated_at >= Now0
          /\ e.decision = "NoOp"

\* C13: the stale-labelled open issues are examined first, in ascending
\* updated_at order; an issue of the second scan is examined only after every
\* one of them, in ascending order too, and none is examined when the cap was
\* reached in the first scan.
C13_TwoPhaseOrder ==
    /\ \A k \in 2..Len(log) :
          /\ log[k - 1].phase <= log[k].phase
          /\ log[k - 1].phase = log[k].phase =>
                log[k - 1].snap.updated_at <= log[k].snap.updated_at
          /\ log[k].phase = 1 => StaleEntry(log[k])
    /\ (log # <<>> /\ log[1].phase = 1) => StaleEntry(log[1])
    /\ (log # <<>> /\ log[Len(log)].phase = 2) =>
          /\ \A i \in Ids :
                (start[i].state = "open" /\ staleLabel \in start[i].labels) =>
                   \E k \in DOMAIN log : log[k].phase = 1 /\ log[k].issue = i
          /\ HasLimit =>
                Cardinality({k \in DOMAIN log :
                    log[k].phase = 1 /\ Returns(log[k].decision)}) < limitPerRun

\* two stale-labelled issues of different age were examined, the older first,
\* and then two issues of the second scan
C13_Witness ==
    /\ Len(log) >= 4
    /\ log[1].phase = 1 /\ log[2].phase = 1
    /\ log[1].snap.updated_at < log[2].snap.updated_at
    /\ log[3].phase = 2 /\ log[4].phase = 2
    /\ log[3].issue # log[4].issue

\* what C14 expects of is_exempt
ExpectedExempt(issue) ==
    \/ (config["exemptLabels"] \cap issue.labels) # {}
    \/ (issue.assignees # <<>> /\ Get("exemptAssignees", TRUE))
    \/ (issue.milestone /\ Get("exemptMilestones", TRUE))

\* C14: is_exempt returns true exactly when the labels meet exemptLabels, or
\* there is an assignee and exemptAssignees (default true), or there is a
\* milestone and exemptMilestones (default true).  Stated for the
\* configurations that carry exemptLabels.
C14_ExemptExactly ==
    Has("exemptLabels") =>
       \A e \in Entries :
          /\ e.decision # "TypeError"
          /\ (e.decision = "Exempt") <=> ExpectedExempt(e.snap)

\* C15 as stated: processed is the number of decisions other than NoOp taken
\* (or logged, in dry-run) so far in the run, and a decision of NoOp never
\* changes it.
C15_CounterCountsActions ==
    InRun =>
       /\ processed = Acted
       /\ \A e \in Entries : ~Returns(e.decision) => e.after = e.before

EndedEarly == \E k \in DOMAIN log : log[k].decision = "EarlyExit"

\* C15, amended: processed counts the decisions other than NoOp until the scan
\* meets a non-exempt issue without the stale label that is not yet old enough;
\* from that issue on it holds limitPerRun (None when not configured).  NoOp on
\* a stale-labelled issue and an exempt issue never change it.
C15_CounterUntilEarlyExit ==
    InRun =>
       /\ processed = (IF EndedEarly THEN limitPerRun ELSE Acted)
       /\ \A k \in DOMAIN log :
             LET e == log[k]
             IN  /\ e.decision \in {"NoOp", "Exempt"} => e.after = e.before
                 /\ e.decision = "EarlyExit" => e.after = limitPerRun
                 /\ (Returns(e.decision) /\ e.before # None) =>
                       e.after = e.before + 1

\* one issue was marked and counted, then an issue not yet stale lifted the
\* counter from 1 to the cap of 2; elsewhere NoOp left a counter of 1 alone
C15_Witness ==
    \E j, k \in DOMAIN log :
       /\ j < k
       /\ Returns(log[j].decision)
       /\ log[j].after = 1
       /\ log[k].decision = "EarlyExit"
       /\ log[k].before = 1
       /\ log[k].after = 2
       /\ processed = 2

\* C16: once process_issue meets an issue without the stale label that is not
\* yet old enough, the run ends: no later issue is classified or mutated,
\* whether limitPerRun is configured or not.
C16_EarlyExitEndsRun ==
    \A j, k \in DOMAIN log :
       (j < k /\ log[j].decision = "EarlyExit") =>
          /\ log[k] \notin Classified
          /\ log[k].post = log[k].snap

\* C20: within one run no issue gets more than one decision other than NoOp
\* and none is counted twice in processed, in dry-run as well as outside it.
C20_OneActionPerIssue ==
    \A i \in Ids :
       Cardinality({k \in DOMAIN log :
           log[k].issue = i /\ Returns(log[k].decision)}) <= 1

\* the names of the tracker calls made for an entry, in order
Ops(e) == [k \in DOMAIN e.calls |-> e.calls[k].op]
Posted(e, body) ==
    e.post.comments = Append(e.snap.comments, [body |-> body, updated_at |-> now])

\* C17: outside dry-run MarkStale adds staleLabel and then posts markComment,
\* so the issue ends with the label and markComment as its latest comment;
\* UnmarkStale removes staleLabel and posts unmarkComment only if configured;
\* Close posts closeComment, only if configured, before it closes the issue;
\* NoOp makes no tracker call.
C17_ActionEffects ==
    ~dry_run =>
       \A k \in DOMAIN log :
          LET e == log[k]
          IN  /\ e.decision = "MarkStale" =>
                    /\ Ops(e) = <<"add_to_labels", "create_comment">>
                    /\ e.post.labels = e.snap.labels \cup {staleLabel}
                    /\ Posted(e, markComment)
                    /\ last_comment(e.post).body = markComment
                    /\ e.post.state = "open"
              /\ e.decision = "UnmarkStale" =>
                    /\ e.post.labels = e.snap.labels \ {staleLabel}
                    /\ e.post.state = "open"
                    /\ IF TruthyText("unmarkComment")
                       THEN /\ Ops(e) = <<"remove_from_labels", "create_comment">>
                            /\ Posted(e, config["unmarkComment"])
                       ELSE /\ Ops(e) = <<"remove_from_labels">>
                            /\ e.post.comments = e.snap.comments
              /\ e.decision = "Close" =>
                    /\ e.post.labels = e.snap.labels
                    /\ e.post.state = "closed"
                    /\ IF TruthyText("closeComment")
                       THEN /\ Ops(e) = <<"create_comment", "edit">>
                            /\ Posted(e, config["closeComment"])
                       ELSE /\ Ops(e) = <<"edit">>
                            /\ e.post.comments = e.snap.comments
              /\ e.decision \in {"NoOp", "EarlyExit"} =>
                    /\ e.calls = <<>>
                    /\ e.post = e.snap

\* one run outside dry-run closed an issue with a closing comment, unmarked
\* another with an unmark comment and marked a third
C17_Witness ==
    /\ ~dry_run
    /\ TruthyText("closeComment")
    /\ TruthyText("unmarkComment")
    /\ \E e \in Entries : e.decision = "Close" /\ e.post.state = "closed"
    /\ \E e \in Entries : e.decision = "UnmarkStale" /\ staleLabel \notin e.post.labels
    /\ \E e \in Entries : e.decision = "MarkStale" /\ staleLabel \in e.post.labels

\* the issue as the run's latest record of it left it
LeftAs(i) ==
    LET ks == {k \in DOMAIN log : log[k].issue = i}
    IN  IF ks = {} THEN start[i]
        ELSE log[CHOOSE k \in ks : \A m \in ks : m <= k].post

\* C18: a tracker call or an issue fetch that fails is fatal and not retried:
\* the run stops there, no later issue is classified or mutated, the failed
\* action is not counted, and what the completed calls did (to earlier issues,
\* or earlier in the same action) stays.
C18_FailureIsFatal ==
    \A k \in DOMAIN log :
       log[k].failed =>
          /\ k = Len(log)
          /\ pc = "crashed"
          /\ processed = log[k].before
          /\ calls = Cardinality({<<j, c>> \in (DOMAIN log) \X (1..2) :
                                      c <= Len(log[j].calls)})
          /\ \A i \in Ids : issues[i] = LeftAs(i)
          /\ log[k].issue # 0 =>
                /\ Len(log[k].calls) < Len(Calls(log[k].decision))
                /\ log[k].calls =
                      SubSeq(Calls(log[k].decision), 1, Len(log[k].calls))
                /\ log[k].post = After(log[k].snap, log[k].calls)

\* an earlier issue was handled in full, then the second call of the action
\* on the next issue failed: the run is over and the issue keeps what the
\* first call did
C18_Witness ==
    /\ pc = "crashed"
    /\ Len(log) >= 2
    /\ \E j \in 1..(Len(log) - 1) :
          /\ Returns(log[j].decision)
          /\ issues[log[j].issue] = log[j].post
          /\ log[j].post # log[j].snap
    /\ log[Len(log)].failed
    /\ log[Len(log)].issue # 0
    /\ Len(log[Len(log)].calls) = 1
    /\ issues[log[Len(log)].issue] # log[Len(log)].snap

\* a run started now would take an action on issue i if its loop reached it
WouldAct(i) ==
    /\ i \in Listed(1) \cup Listed(2)
    /\ is_exempt(issues[i]) = "False"
    /\ Returns(process_issue(issues[i]))

Settled == \A i \in Ids : ~WouldAct(i)
CapWasReached == HasLimit /\ Acted >= limitPerRun

\* C19: when a run outside dry-run returns without having taken limitPerRun
\* actions, no issue is left on which a run started at the same time would
\* act; and as long as that is so, no step changes any issue: a second run
\* started at once makes no mutating call and leaves every issue as it is.
C19_SecondRunIdle ==
    [][ /\ (pc' = "done" /\ ~dry_run /\ ~CapWasReached') => Settled'
        /\ (Settled /\ ~dry_run) => issues' = issues ]_vars

\* a run that marked one issue and unmarked another has returned below the
\* cap, the next run has started on the same day and has examined both
C19_Witness ==
    /\ ~dry_run
    /\ pc = "scan"
    /\ Settled
    /\ Len(log) >= 2
    /\ \E i, j \in Ids :
          /\ i # j
          /\ staleLabel \in issues[i].labels
          /\ issues[i].comments # <<>>
          /\ last_comment(issues[i]).updated_at = now
          /\ last_comment(issues[i]).body = markComment
          /\ TruthyText("unmarkComment")
          /\ issues[j].comments # <<>>
          /\ last_comment(issues[j]).updated_at = now
          /\ last_comment(issues[j]).body = config["unmarkComment"]
          /\ \E e \in Entries : e.issue = i /\ e.snap = issues[i]
          /\ \E e \in Entries : e.issue = j /\ e.snap = issues[j]

====
